---- MODULE Spec2Model ----
(***************************************************************************)
(* stellar-x402: the facilitator client (verifyPayment, settlePayment and  *)
(* their convenience wrappers) and the Stellar utilities of                *)
(* lib/facilitator-client.ts, with the wire types of                       *)
(* x402-protocol-types.                                                    *)
(*                                                                         *)
(* Every exported function is an async (or plain) JavaScript function.     *)
(* Code between two awaits runs without interruption, so one action of     *)
(* this model is one such segment: the call up to its first await, or the  *)
(* continuation that runs when the awaited promise settles.  A call is a   *)
(* stack of frames (a function, its arguments, its locals, its position);  *)
(* a function that calls another pushes a frame and resumes when that      *)
(* frame has completed.  The facilitator service and Horizon are the       *)
(* environment: they choose how each request is answered.                  *)
(***************************************************************************)
EXTENDS Integers, Sequences, FiniteSets, TLC

\* ------------------------------------------------------------------ bounds
\* Call slots of the caller.  The caller of Spec awaits each call before it
\* makes the next one (Quiet), so one slot is in use at a time.
MaxCalls == 2
\* Invocations of exported functions per behaviour.
MaxInvocations == 2
\* Largest timeoutSeconds handed to waitForTransaction.
MaxTimeoutSeconds == 3
\* The clock is observed up to this many ticks after an invocation began.
MaxElapsedTicks == 7

\* ------------------------------------------------------- program constants
\* setTimeout(resolve, 1000)
SleepMs == 1000
\* timeoutSeconds * 1000
MsPerSecond == 1000
\* fee: BASE_FEE (100 stroops)
BASE_FEE == 100
\* transactionBuilder.setTimeout(180)
TxTimeout == 180
\* 10_000_000 stroops per XLM
StroopsPerXlm == 10000000
\* X402_VERSION
X402_VERSION == 1

\* Granularity of the modelled clock, in milliseconds.
TickMs == SleepMs \div 2

Calls == 1..MaxCalls

Undefined == "undefined"

\* -------------------------------------------------------------- wire types
\* interface VerifyRequest: the fields of the /verify request body.
VerifyRequest == {"x402Version", "paymentHeader", "paymentRequirements"}
\* interface VerifyResponse
VerifyResponse == {"isValid", "invalidReason"}
\* interface SettleRequest
SettleRequest == {"x402Version", "paymentHeader", "paymentRequirements"}
\* interface SettleResponse
SettleResponse == {"success", "error", "txHash", "networkId"}
\* interface VerifyPaymentRequest (legacy)
VerifyPaymentRequest ==
    {"signedTransaction", "expectedRecipient", "expectedAmount", "expectedNetwork"}
\* interface VerifyPaymentResponse (legacy)
VerifyPaymentResponse == {"valid", "error", "message"}
\* interface SettlePaymentResponse (legacy)
SettlePaymentResponse ==
    {"settled", "transactionHash", "amount", "recipient", "network",
     "timestamp", "status", "error", "message"}

\* ------------------------------------------------------------ input domains
\* XDR encoded signed transactions handed to the facilitator client.
SignedTxs == {"AAAA-xdr", "BBBB-xdr"}
\* Endpoint URLs handed to verifyPayment / settlePayment.
VerifyUrl == "https://facilitator.example/verify"
SettleUrl == "https://facilitator.example/settle"
\* Base URLs handed to the Simple wrappers ("" is the missing URL).
BaseUrls == {"", "https://facilitator.example"}
Recipient == "GRECIPIENT"
AmountStroops == "1000000"
DefaultNetwork == "stellar-testnet"

\* HTTP statuses the facilitator may answer with.
Statuses == {200, 500}
\* response.ok
Ok(status) == 200 <= status /\ status <= 299

\* Response bodies: not JSON at all, the JSON value null, or a JSON object
\* whose fields are the strings given ("undefined" for an absent field).
VerifyBodies ==
    {[json |-> "invalid"], [json |-> "null"]}
    \cup [json : {"object"}, valid : {"true", "false", Undefined},
          error : {Undefined, "invalid_signature"},
          message : {Undefined, "details"}]
SettleBodies ==
    {[json |-> "invalid"], [json |-> "null"]}
    \cup [json : {"object"}, settled : {"true", "false", Undefined},
          transactionHash : {Undefined, "HASH1"},
          error : {Undefined, "tx_failed"},
          message : {Undefined}]
\* What fetch() does: it rejects, or it resolves to a response.
FetchOutcomes(bodies) ==
    {[kind |-> "reject", reason |-> "fetch failed"]}
    \cup [kind : {"response"}, status : Statuses, body : bodies]

\* ------------------------------------------------------------------- state
VARIABLES
    stack,        \* stack[c]: the frames of call c, innermost last
    ret,          \* ret[c]: the completion of the frame that finished last
    reqs,         \* reqs[c]: the network requests call c has issued, in order
    invocations,  \* exported functions invoked so far
    started,      \* executions of verifyPayment / settlePayment begun so far
    posts,        \* HTTP POSTs the facilitator has been sent so far
    verifiedOk,   \* signed transactions the facilitator has answered valid
    settleLog,    \* settle requests sent: the transaction, and who sent it
    submitted,    \* transactions handed to Horizon's submit endpoint, in order
    trace         \* trace[c]: what call c has done to a transaction, in order

vars == <<stack, ret, reqs, invocations, started, posts, verifiedOk,
          settleLog, submitted, trace>>

NoRet == [kind |-> "none"]

\* ------------------------------------------------------------ frame helpers
Depth(c) == Len(stack[c])
Top(c) == stack[c][Len(stack[c])]
Idle(c) == stack[c] = <<>> /\ ret[c].kind = "none"
Done(c) == stack[c] = <<>> /\ ret[c].kind # "none"
\* The innermost frame of c runs fn and stands at pc.
At(c, fn, pc) == stack[c] # <<>> /\ Top(c).fn = fn /\ Top(c).pc = pc

Frame(fn, pc, args, loc, calls) ==
    [fn |-> fn, pc |-> pc, args |-> args, loc |-> loc, calls |-> calls]

\* The stack of c with its innermost frame replaced by f.
WithTop(c, f) == [stack EXCEPT ![c] = [@ EXCEPT ![Len(@)] = f]]
\* The stack of c with frame f pushed.
Pushed(c, f) == [stack EXCEPT ![c] = Append(@, f)]
\* The stack of c without its innermost frame.
Popped(c) == [stack EXCEPT ![c] = SubSeq(@, 1, Len(@) - 1)]

\* The innermost frame of c completes: it returns (kind "return") or throws
\* (kind "throw") val, having made `calls` network calls.
Completion(f, kind, val) ==
    [kind |-> kind, val |-> val, fn |-> f.fn, args |-> f.args,
     loc |-> f.loc, calls |-> f.calls]

\* A JavaScript Error with this message.
Error(msg) == [error |-> msg]

\* a || b on strings: undefined and "" are falsy.
OrElse(a, b) == IF a \in {Undefined, ""} THEN b ELSE a

Request(fn, method, url, body) ==
    [fn |-> fn, method |-> method, url |-> url, body |-> body]


\* ------------------------------------------------------- facilitator client
\* JSON.stringify({signedTransaction, expectedRecipient, expectedAmount,
\* expectedNetwork}): the body verifyPayment posts.
VerifyBody(args) ==
    [signedTransaction |-> args.signedTransaction,
     expectedRecipient |-> args.expectedRecipient,
     expectedAmount |-> args.expectedAmount,
     expectedNetwork |-> args.expectedNetwork]

\* JSON.stringify({signedTransaction, expectedNetwork}): the body
\* settlePayment posts.
SettleBody(args) ==
    [signedTransaction |-> args.signedTransaction,
     expectedNetwork |-> args.expectedNetwork]

\* The catch block of verifyPayment / settlePayment.
NetworkError(flag, msg) ==
    [json |-> "object", error |-> "Network error", message |-> msg]
        @@ (flag :> "false")

\* verifyPayment without its `if (!response.ok)` branch: the body is returned
\* whatever the status.
VerifyPaymentResultIgnoresStatus(response) ==
    IF response.body.json = "invalid"
    THEN NetworkError("valid", "Unexpected token in JSON")
    ELSE response.body

\* What verifyPayment returns once response.json() has settled.
VerifyPaymentResult(response) ==
    LET data == response.body IN
    IF data.json = "invalid"
    THEN NetworkError("valid", "Unexpected token in JSON")
    ELSE IF ~Ok(response.status)
    THEN IF data.json = "null"
         THEN NetworkError("valid", "Cannot read properties of null")
         ELSE [json |-> "object", valid |-> "false",
               error |-> OrElse(data.error, "Verification failed"),
               message |-> OrElse(data.message,
                                  "HTTP " \o ToString(response.status))]
    ELSE data

\* What settlePayment returns once response.json() has settled.
SettlePaymentResult(response) ==
    LET data == response.body IN
    IF data.json = "invalid"
    THEN NetworkError("settled", "Unexpected token in JSON")
    ELSE IF ~Ok(response.status)
    THEN IF data.json = "null"
         THEN NetworkError("settled", "Cannot read properties of null")
         ELSE [json |-> "object", settled |-> "false",
               error |-> OrElse(data.error, "Settlement failed"),
               message |-> OrElse(data.message,
                                  "HTTP " \o ToString(response.status))]
    ELSE data

\* The facilitator answered this verify request 2xx with valid: true.
AnsweredValid(o) ==
    /\ o.kind = "response" /\ Ok(o.status)
    /\ o.body.json = "object" /\ o.body.valid = "true"

\* The exported function the caller invoked, given the frames below a new one.
Invoker(stk, fn) == IF stk = <<>> THEN fn ELSE stk[1].fn

\* verifyPayment is entered above the frames stk: it calls fetch and awaits.
EnterVerifyPayment(c, stk, args) ==
    /\ stack' = [stack EXCEPT ![c] =
           Append(stk, Frame("verifyPayment", "fetch", args,
                             [outcome |-> [kind |-> "pending"]], 1))]
    /\ ret' = [ret EXCEPT ![c] = NoRet]
    /\ reqs' = [reqs EXCEPT ![c] =
           Append(@, Request("verifyPayment", "POST", args.facilitatorUrl,
                             VerifyBody(args)))]
    /\ started' = started + 1
    /\ posts' = posts + 1
    /\ UNCHANGED settleLog

\* settlePayment as a client that settles only what it has seen verified
\* would enter it.
EnterSettlePaymentIfVerified(c, stk, args) ==
    IF args.signedTransaction \in verifiedOk
    THEN /\ stack' = [stack EXCEPT ![c] =
                Append(stk, Frame("settlePayment", "fetch", args,
                                  [outcome |-> [kind |-> "pending"]], 1))]
         /\ ret' = [ret EXCEPT ![c] = NoRet]
         /\ reqs' = [reqs EXCEPT ![c] =
                Append(@, Request("settlePayment", "POST", args.facilitatorUrl,
                                  SettleBody(args)))]
         /\ started' = started + 1
         /\ posts' = posts + 1
         /\ settleLog' = settleLog \cup
                {[tx |-> args.signedTransaction,
                  by |-> Invoker(stk, "settlePayment"),
                  verified |-> TRUE]}
    ELSE /\ stack' = [stack EXCEPT ![c] = stk]
         /\ ret' = [ret EXCEPT ![c] =
                Completion(Frame("settlePayment", "fetch", args,
                                 [outcome |-> [kind |-> "reject",
                                               message |-> "not verified"]], 0),
                           "return", NetworkError("settled", "not verified"))]
         /\ UNCHANGED <<reqs, started, posts, settleLog>>

\* settlePayment is entered above the frames stk: it calls fetch and awaits.
EnterSettlePayment(c, stk, args) ==
    /\ stack' = [stack EXCEPT ![c] =
           Append(stk, Frame("settlePayment", "fetch", args,
                             [outcome |-> [kind |-> "pending"]], 1))]
    /\ ret' = [ret EXCEPT ![c] = NoRet]
    /\ reqs' = [reqs EXCEPT ![c] =
           Append(@, Request("settlePayment", "POST", args.facilitatorUrl,
                             SettleBody(args)))]
    /\ started' = started + 1
    /\ posts' = posts + 1
    /\ settleLog' = settleLog \cup
           {[tx |-> args.signedTransaction,
             by |-> Invoker(stk, "settlePayment"),
             verified |-> args.signedTransaction \in verifiedOk]}

VerifyArgs(url, tx) ==
    [facilitatorUrl |-> url, signedTransaction |-> tx,
     expectedRecipient |-> Recipient, expectedAmount |-> AmountStroops,
     expectedNetwork |-> DefaultNetwork]

SettleArgs(url, tx) ==
    [facilitatorUrl |-> url, signedTransaction |-> tx,
     expectedNetwork |-> DefaultNetwork]

\* The caller awaits each call before it makes the next one.
Quiet == \A c \in Calls : stack[c] = <<>> /\ ret[c].kind = "none"

\* The caller may invoke an exported function in slot c: the lowest free
\* slot (slots are interchangeable), while invocations remain.
MayInvoke(c) ==
    /\ Idle(c) /\ Quiet
    /\ \A d \in Calls : d < c => ~Idle(d)
    /\ invocations < MaxInvocations

\* The caller invokes verifyPayment(url, tx, recipient, amount).
InvokeVerifyPayment(c) ==
    /\ MayInvoke(c)
    /\ \E tx \in SignedTxs : EnterVerifyPayment(c, <<>>, VerifyArgs(VerifyUrl, tx))
    /\ invocations' = invocations + 1
    /\ UNCHANGED <<verifiedOk, submitted, trace>>

\* The caller invokes settlePayment(url, tx).
InvokeSettlePayment(c) ==
    /\ MayInvoke(c)
    /\ \E tx \in SignedTxs : EnterSettlePayment(c, <<>>, SettleArgs(SettleUrl, tx))
    /\ invocations' = invocations + 1
    /\ UNCHANGED <<verifiedOk, submitted, trace>>

\* verifyPayment with a retry: a rejected fetch is sent again.
VerifyPaymentFetchedRetry(c) ==
    /\ At(c, "verifyPayment", "fetch")
    /\ \E o \in FetchOutcomes(VerifyBodies) :
        LET f == [Top(c) EXCEPT !.loc.outcome = o] IN
        /\ IF o.kind = "reject"
           THEN /\ stack' = WithTop(c, [f EXCEPT !.calls = @ + 1])
                /\ reqs' = [reqs EXCEPT ![c] =
                       Append(@, Request("verifyPayment", "POST",
                                         f.args.facilitatorUrl, VerifyBody(f.args)))]
                /\ posts' = posts + 1
           ELSE /\ stack' = WithTop(c, [f EXCEPT !.pc = "json"])
                /\ UNCHANGED <<reqs, posts>>
        /\ UNCHANGED ret
        /\ verifiedOk' = IF AnsweredValid(o)
                         THEN verifiedOk \cup {Top(c).args.signedTransaction}
                         ELSE verifiedOk
    /\ UNCHANGED <<invocations, started, settleLog, submitted, trace>>

\* verifyPayment: the fetch promise settles.  A rejection lands in the catch
\* block; a response is kept and response.json() is awaited.
VerifyPaymentFetched(c) ==
    /\ At(c, "verifyPayment", "fetch")
    /\ \E o \in FetchOutcomes(VerifyBodies) :
        LET f == [Top(c) EXCEPT !.loc.outcome = o] IN
        /\ IF o.kind = "reject"
           THEN /\ stack' = Popped(c)
                /\ ret' = [ret EXCEPT ![c] =
                       Completion(f, "return", NetworkError("valid", o.reason))]
           ELSE /\ stack' = WithTop(c, [f EXCEPT !.pc = "json"])
                /\ UNCHANGED ret
        /\ verifiedOk' = IF AnsweredValid(o)
                         THEN verifiedOk \cup {Top(c).args.signedTransaction}
                         ELSE verifiedOk
    /\ UNCHANGED <<reqs, invocations, started, posts, settleLog, submitted, trace>>

\* verifyPayment keeping a module-level cache of the transactions found
\* valid, and answering from it.
VerifyPaymentParsedCached(c) ==
    /\ At(c, "verifyPayment", "json")
    /\ stack' = Popped(c)
    /\ ret' = [ret EXCEPT ![c] =
           Completion(Top(c), "return",
               IF /\ Top(c).args.signedTransaction \in verifiedOk
                  /\ ~AnsweredValid(Top(c).loc.outcome)
               THEN [json |-> "object", valid |-> "true",
                     error |-> Undefined, message |-> Undefined]
               ELSE VerifyPaymentResult(Top(c).loc.outcome))]
    /\ UNCHANGED <<reqs, invocations, started, posts, verifiedOk, settleLog,
                   submitted, trace>>

\* verifyPayment: response.json() settles and the function returns.
VerifyPaymentParsed(c) ==
    /\ At(c, "verifyPayment", "json")
    /\ stack' = Popped(c)
    /\ ret' = [ret EXCEPT ![c] =
           Completion(Top(c), "return", VerifyPaymentResult(Top(c).loc.outcome))]
    /\ UNCHANGED <<reqs, invocations, started, posts, verifiedOk, settleLog,
                   submitted, trace>>

\* settlePayment: the fetch promise settles.
SettlePaymentFetched(c) ==
    /\ At(c, "settlePayment", "fetch")
    /\ \E o \in FetchOutcomes(SettleBodies) :
        LET f == [Top(c) EXCEPT !.loc.outcome = o] IN
        IF o.kind = "reject"
        THEN /\ stack' = Popped(c)
             /\ ret' = [ret EXCEPT ![c] =
                    Completion(f, "return", NetworkError("settled", o.reason))]
        ELSE /\ stack' = WithTop(c, [f EXCEPT !.pc = "json"])
             /\ UNCHANGED ret
    /\ UNCHANGED <<reqs, invocations, started, posts, verifiedOk, settleLog,
                   submitted, trace>>

\* settlePayment: response.json() settles and the function returns.
SettlePaymentParsed(c) ==
    /\ At(c, "settlePayment", "json")
    /\ stack' = Popped(c)
    /\ ret' = [ret EXCEPT ![c] =
           Completion(Top(c), "return", SettlePaymentResult(Top(c).loc.outcome))]
    /\ UNCHANGED <<reqs, invocations, started, posts, verifiedOk, settleLog,
                   submitted, trace>>

\* verifyPaymentSimple handing verifyPayment the base URL as it is.
EnterVerifyPaymentSimpleBareUrl(c, stk, args) ==
    IF args.facilitatorUrl = ""
    THEN /\ stack' = [stack EXCEPT ![c] = stk]
         /\ ret' = [ret EXCEPT ![c] =
                Completion(Frame("verifyPaymentSimple", "call", args,
                                 [inner |-> "verifyPayment"], 0),
                           "throw",
                           Error("Facilitator URL is required - no default available"))]
         /\ UNCHANGED <<reqs, started, posts, settleLog>>
    ELSE EnterVerifyPayment(c,
             Append(stk, Frame("verifyPaymentSimple", "call", args,
                               [inner |-> "verifyPayment"], 0)),
             args)

\* verifyPaymentSimple is entered above the frames stk: without a URL it
\* throws before anything is sent, otherwise it calls verifyPayment with
\* `${facilitatorUrl}/verify` and returns what that returns.
EnterVerifyPaymentSimple(c, stk, args) ==
    LET f == Frame("verifyPaymentSimple", "call", args, [inner |-> "verifyPayment"], 0) IN
    IF args.facilitatorUrl = ""
    THEN /\ stack' = [stack EXCEPT ![c] = stk]
         /\ ret' = [ret EXCEPT ![c] =
                Completion(f, "throw",
                    Error("Facilitator URL is required - no default available"))]
         /\ UNCHANGED <<reqs, started, posts, settleLog>>
    ELSE EnterVerifyPayment(c, Append(stk, f),
             [args EXCEPT !.facilitatorUrl = @ \o "/verify"])

\* settlePaymentSimple is entered above the frames stk.
EnterSettlePaymentSimple(c, stk, args) ==
    LET f == Frame("settlePaymentSimple", "call", args, [inner |-> "settlePayment"], 0) IN
    IF args.facilitatorUrl = ""
    THEN /\ stack' = [stack EXCEPT ![c] = stk]
         /\ ret' = [ret EXCEPT ![c] =
                Completion(f, "throw",
                    Error("Facilitator URL is required - no default available"))]
         /\ UNCHANGED <<reqs, started, posts, settleLog>>
    ELSE EnterSettlePayment(c, Append(stk, f),
             [args EXCEPT !.facilitatorUrl = @ \o "/settle"])

\* The caller invokes verifyPaymentSimple(baseUrl, tx, recipient, amount).
InvokeVerifyPaymentSimple(c) ==
    /\ MayInvoke(c)
    /\ \E url \in BaseUrls, tx \in SignedTxs :
           EnterVerifyPaymentSimple(c, <<>>, VerifyArgs(url, tx))
    /\ invocations' = invocations + 1
    /\ UNCHANGED <<verifiedOk, submitted, trace>>

\* The caller invokes settlePaymentSimple(baseUrl, tx).
InvokeSettlePaymentSimple(c) ==
    /\ MayInvoke(c)
    /\ \E url \in BaseUrls, tx \in SignedTxs :
           EnterSettlePaymentSimple(c, <<>>, SettleArgs(url, tx))
    /\ invocations' = invocations + 1
    /\ UNCHANGED <<verifiedOk, submitted, trace>>

\* return verifyPayment(...) / return settlePayment(...): the wrapper's
\* promise settles the way the inner call's promise did.
SimpleReturned(c) ==
    /\ stack[c] # <<>>
    /\ Top(c).fn \in {"verifyPaymentSimple", "settlePaymentSimple"}
    /\ Top(c).pc = "call"
    /\ ret[c].kind # "none"
    /\ stack' = Popped(c)
    /\ ret' = [ret EXCEPT ![c] =
           Completion([Top(c) EXCEPT !.calls = @ + ret[c].calls],
                      ret[c].kind, ret[c].val)]
    /\ UNCHANGED <<reqs, invocations, started, posts, verifiedOk, settleLog,
                   submitted, trace>>

\* --------------------------------------------------------- Stellar utilities
\* Network names handed to the utilities.
Networks == {"stellar-testnet", "stellar-mainnet", "PUBLIC", "testnet",
             "futurenet", "local", "standalone", "devnet"}

\* network.toLowerCase().replace("stellar-", "").replace("public", "mainnet")
NormalizedNetwork(network) ==
    CASE network = "stellar-testnet" -> "testnet"
      [] network = "stellar-mainnet" -> "mainnet"
      [] network = "PUBLIC" -> "mainnet"
      [] OTHER -> network

\* getHorizonClient: the Horizon URL of a network (testnet when unknown).
HorizonUrl(network) ==
    LET n == NormalizedNetwork(network) IN
    CASE n = "mainnet" -> "https://horizon.stellar.org"
      [] n = "testnet" -> "https://horizon-testnet.stellar.org"
      [] n = "futurenet" -> "https://horizon-futurenet.stellar.org"
      [] n \in {"local", "standalone"} -> "http://localhost:8000"
      [] OTHER -> "https://horizon-testnet.stellar.org"

\* getNetworkPassphrase
NetworkPassphrase(network) ==
    LET n == NormalizedNetwork(network) IN
    CASE n = "mainnet" -> "Public Global Stellar Network ; September 2015"
      [] n = "testnet" -> "Test SDF Network ; September 2015"
      [] n = "futurenet" -> "Test SDF Future Network ; October 2022"
      [] n \in {"local", "standalone"} -> "Standalone Network ; February 2017"
      [] OTHER -> "Test SDF Network ; September 2015"

\* Keypairs: a full keypair, or one made from a public key only, which the
\* SDK refuses to sign with.
Keypairs == [publicKey : {"GSOURCE"}, canSign : BOOLEAN]
Destinations == {"GDEST", "not-an-address"}
\* Operation.payment accepts a valid address only.
ValidAddress(a) == a \in {"GDEST", "GSOURCE", "GRECIPIENT", "GOTHER"}
XlmAmounts == {"0.1", "-1"}
\* Operation.payment accepts a positive decimal of at most 7 digits only.
ValidAmount(a) == a \in {"0.1", "1.5", "2.0"}
Memos == {Undefined, "order-7"}

\* What Horizon answers to loadAccount: an error, or the account.
LoadOutcomes ==
    {[kind |-> "reject", reason |-> "Not Found"]}
    \cup [kind : {"account"}, sequence : {41},
          balances : {<<>>,
                      <<[asset_type |-> "credit_alphanum4", balance |-> "7.0000000"],
                        [asset_type |-> "native", balance |-> "1.5000000"]>>}]

\* What Horizon answers to submitTransaction: the hash, a Horizon error with
\* response data, or an error without a response.
SubmitOutcomes ==
    {[kind |-> "success", hash |-> "HASH1"],
     [kind |-> "reject", data |-> "tx_bad_seq", reason |-> "Bad Request"],
     [kind |-> "reject", data |-> Undefined, reason |-> "socket hang up"]}

HorizonGet(fn, network, path) ==
    Request(fn, "GET", HorizonUrl(network) \o path, <<>>)

\* buildPaymentTransaction signing what it has built.
BuiltTransactionSigned(args, account) ==
    [source |-> args.sourceKeypair.publicKey,
     sequence |-> account.sequence + 1,
     fee |-> BASE_FEE,
     networkPassphrase |-> NetworkPassphrase(args.network),
     operations |-> <<[type |-> "payment", asset_type |-> "native",
                       to |-> args.destinationAddress, amount |-> args.amount]>>,
     memo |-> IF args.memo \in {Undefined, ""} THEN "none" ELSE args.memo,
     timeout |-> TxTimeout,
     signatures |-> <<args.sourceKeypair.publicKey>>]

\* TransactionBuilder(sourceAccount, ...).addOperation(payment)
\* [.addMemo(text)].setTimeout(180).build()
BuiltTransaction(args, account) ==
    [source |-> args.sourceKeypair.publicKey,
     sequence |-> account.sequence + 1,
     fee |-> BASE_FEE,
     networkPassphrase |-> NetworkPassphrase(args.network),
     operations |-> <<[type |-> "payment", asset_type |-> "native",
                       to |-> args.destinationAddress, amount |-> args.amount]>>,
     memo |-> IF args.memo \in {Undefined, ""} THEN "none" ELSE args.memo,
     timeout |-> TxTimeout,
     signatures |-> <<>>]

\* transaction.sign(keypair)
Signed(tx, keypair) == [tx EXCEPT !.signatures = Append(@, keypair.publicKey)]

\* buildPaymentTransaction is entered above the frames stk: it asks Horizon
\* for the source account and awaits.
EnterBuildPaymentTransaction(c, stk, args) ==
    /\ stack' = [stack EXCEPT ![c] =
           Append(stk, Frame("buildPaymentTransaction", "loadAccount", args,
                             [outcome |-> [kind |-> "pending"]], 1))]
    /\ ret' = [ret EXCEPT ![c] = NoRet]
    /\ reqs' = [reqs EXCEPT ![c] =
           Append(@, HorizonGet("buildPaymentTransaction", args.network,
                                "/accounts/" \o args.sourceKeypair.publicKey))]
    /\ trace' = [trace EXCEPT ![c] = Append(@, "loadAccount")]

PaymentArgs ==
    [sourceKeypair : Keypairs, destinationAddress : Destinations,
     amount : XlmAmounts, network : {DefaultNetwork}, memo : Memos]

\* The caller invokes buildPaymentTransaction(keypair, destination, amount).
InvokeBuildPaymentTransaction(c) ==
    /\ MayInvoke(c)
    /\ \E args \in PaymentArgs : EnterBuildPaymentTransaction(c, <<>>, args)
    /\ invocations' = invocations + 1
    /\ UNCHANGED <<started, posts, verifiedOk, settleLog, submitted>>

\* buildPaymentTransaction: loadAccount settles.  An error propagates; with
\* the account the transaction is built (the SDK throws on a bad destination
\* or amount) and returned, unsigned.
BuildAccountLoaded(c) ==
    /\ At(c, "buildPaymentTransaction", "loadAccount")
    /\ \E o \in LoadOutcomes :
        LET f == [Top(c) EXCEPT !.loc.outcome = o]
            args == Top(c).args IN
        /\ stack' = Popped(c)
        /\ IF o.kind = "reject"
           THEN /\ ret' = [ret EXCEPT ![c] = Completion(f, "throw", Error(o.reason))]
                /\ trace' = [trace EXCEPT ![c] = Append(@, "loadFailed")]
           ELSE IF ~ValidAddress(args.destinationAddress)
           THEN /\ ret' = [ret EXCEPT ![c] =
                       Completion(f, "throw", Error("destination is invalid"))]
                /\ trace' = [trace EXCEPT ![c] = @ \o <<"loaded", "buildFailed">>]
           ELSE IF ~ValidAmount(args.amount)
           THEN /\ ret' = [ret EXCEPT ![c] =
                       Completion(f, "throw", Error("amount argument must be positive"))]
                /\ trace' = [trace EXCEPT ![c] = @ \o <<"loaded", "buildFailed">>]
           ELSE /\ ret' = [ret EXCEPT ![c] =
                       Completion(f, "return", BuiltTransaction(args, o))]
                /\ trace' = [trace EXCEPT ![c] = @ \o <<"loaded", "built">>]
    /\ UNCHANGED <<reqs, invocations, started, posts, verifiedOk, settleLog,
                   submitted>>

\* The caller invokes signAndSubmitPayment(keypair, destination, amount): it
\* calls buildPaymentTransaction and awaits it.
InvokeSignAndSubmitPayment(c) ==
    /\ MayInvoke(c)
    /\ \E args \in PaymentArgs :
           EnterBuildPaymentTransaction(c,
               <<Frame("signAndSubmitPayment", "build", args,
                       [outcome |-> [kind |-> "pending"]], 0)>>, args)
    /\ invocations' = invocations + 1
    /\ UNCHANGED <<started, posts, verifiedOk, settleLog, submitted>>

\* signAndSubmitPayment: buildPaymentTransaction has completed.  Its error
\* propagates; its transaction is signed (the SDK throws without a secret
\* key) and handed to horizon.submitTransaction, which is awaited.
SignAndSubmitBuilt(c) ==
    /\ At(c, "signAndSubmitPayment", "build")
    /\ ret[c].kind # "none"
    /\ LET f == [Top(c) EXCEPT !.calls = @ + ret[c].calls]
           kp == Top(c).args.sourceKeypair IN
       IF ret[c].kind = "throw"
       THEN /\ stack' = Popped(c)
            /\ ret' = [ret EXCEPT ![c] = Completion(f, "throw", ret[c].val)]
            /\ UNCHANGED <<reqs, submitted, trace>>
       ELSE IF ~kp.canSign
       THEN /\ stack' = Popped(c)
            /\ ret' = [ret EXCEPT ![c] =
                   Completion(f, "throw", Error("cannot sign: no secret key available"))]
            /\ trace' = [trace EXCEPT ![c] = Append(@, "signFailed")]
            /\ UNCHANGED <<reqs, submitted>>
       ELSE LET tx == Signed(ret[c].val, kp) IN
            /\ stack' = WithTop(c, [f EXCEPT !.pc = "submit", !.calls = @ + 1])
            /\ ret' = [ret EXCEPT ![c] = NoRet]
            /\ reqs' = [reqs EXCEPT ![c] =
                   Append(@, Request("signAndSubmitPayment", "POST",
                                     HorizonUrl(f.args.network) \o "/transactions",
                                     [tx |-> tx]))]
            /\ submitted' = Append(submitted, tx)
            /\ trace' = [trace EXCEPT ![c] = @ \o <<"signed", "submit">>]
    /\ UNCHANGED <<invocations, started, posts, verifiedOk, settleLog>>

\* signAndSubmitPayment with a retry: a failed submission is sent again.
SignAndSubmitSettledRetry(c) ==
    /\ At(c, "signAndSubmitPayment", "submit")
    /\ \E o \in SubmitOutcomes :
        LET f == [Top(c) EXCEPT !.loc.outcome = o] IN
        IF o.kind = "success"
        THEN /\ stack' = Popped(c)
             /\ ret' = [ret EXCEPT ![c] = Completion(f, "return", o.hash)]
             /\ trace' = [trace EXCEPT ![c] = Append(@, "submitted")]
             /\ UNCHANGED <<reqs, submitted>>
        ELSE /\ stack' = WithTop(c, [f EXCEPT !.calls = @ + 1])
             /\ reqs' = [reqs EXCEPT ![c] = Append(@, reqs[c][Len(reqs[c])])]
             /\ submitted' = Append(submitted, submitted[Len(submitted)])
             /\ trace' = [trace EXCEPT ![c] = @ \o <<"submitFailed", "submit">>]
             /\ UNCHANGED ret
    /\ UNCHANGED <<invocations, started, posts, verifiedOk, settleLog>>

\* signAndSubmitPayment with its catch block swallowing the error: a failed
\* submission returns an undefined hash.
SignAndSubmitSettledSwallows(c) ==
    /\ At(c, "signAndSubmitPayment", "submit")
    /\ \E o \in SubmitOutcomes :
        LET f == [Top(c) EXCEPT !.loc.outcome = o] IN
        /\ stack' = Popped(c)
        /\ ret' = [ret EXCEPT ![c] =
               Completion(f, "return",
                          IF o.kind = "success" THEN o.hash ELSE Undefined)]
        /\ trace' = [trace EXCEPT ![c] =
               Append(@, IF o.kind = "success" THEN "submitted" ELSE "submitFailed")]
    /\ UNCHANGED <<reqs, invocations, started, posts, verifiedOk, settleLog,
                   submitted>>

\* signAndSubmitPayment: submitTransaction settles.  Success returns the
\* hash; a Horizon error is thrown as "Transaction failed: ..."; any other
\* error is rethrown.
SignAndSubmitSettled(c) ==
    /\ At(c, "signAndSubmitPayment", "submit")
    /\ \E o \in SubmitOutcomes :
        LET f == [Top(c) EXCEPT !.loc.outcome = o] IN
        /\ stack' = Popped(c)
        /\ ret' = [ret EXCEPT ![c] =
               IF o.kind = "success"
               THEN Completion(f, "return", o.hash)
               ELSE IF o.data # Undefined
               THEN Completion(f, "throw", Error("Transaction failed: " \o o.data))
               ELSE Completion(f, "throw", Error(o.reason))]
        /\ trace' = [trace EXCEPT ![c] =
               Append(@, IF o.kind = "success" THEN "submitted" ELSE "submitFailed")]
    /\ UNCHANGED <<reqs, invocations, started, posts, verifiedOk, settleLog,
                   submitted>>

\* parseFloat(balance) * 10_000_000, floored: Horizon writes balances with
\* seven decimals, given here as <<whole, fraction>>.
BalanceDigits(balance) ==
    CASE balance = "1.5000000" -> <<1, 5000000>>
      [] balance = "7.0000000" -> <<7, 0>>
      [] OTHER -> <<0, 0>>

BalanceToStroops(balance) ==
    ToString(BalanceDigits(balance)[1] * StroopsPerXlm + BalanceDigits(balance)[2])

\* account.balances.find(b => b.asset_type === "native")
RECURSIVE FindNative(_)
FindNative(balances) ==
    IF balances = <<>> THEN Undefined
    ELSE IF Head(balances).asset_type = "native" THEN Head(balances).balance
    ELSE FindNative(Tail(balances))

\* The caller invokes getAccountBalance(address).
InvokeGetAccountBalance(c) ==
    /\ MayInvoke(c)
    /\ LET args == [accountAddress |-> "GSOURCE", network |-> DefaultNetwork] IN
       /\ stack' = [stack EXCEPT ![c] =
              <<Frame("getAccountBalance", "loadAccount", args,
                      [outcome |-> [kind |-> "pending"]], 1)>>]
       /\ reqs' = [reqs EXCEPT ![c] =
              Append(@, HorizonGet("getAccountBalance", args.network,
                                   "/accounts/" \o args.accountAddress))]
    /\ invocations' = invocations + 1
    /\ UNCHANGED <<ret, started, posts, verifiedOk, settleLog, submitted, trace>>

\* getAccountBalance: loadAccount settles.  Any error yields "0".
GetAccountBalanceLoaded(c) ==
    /\ At(c, "getAccountBalance", "loadAccount")
    /\ \E o \in LoadOutcomes :
        LET f == [Top(c) EXCEPT !.loc.outcome = o] IN
        /\ stack' = Popped(c)
        /\ ret' = [ret EXCEPT ![c] =
               Completion(f, "return",
                   IF o.kind = "reject" THEN "0"
                   ELSE IF FindNative(o.balances) = Undefined THEN "0"
                   ELSE BalanceToStroops(FindNative(o.balances)))]
    /\ UNCHANGED <<reqs, invocations, started, posts, verifiedOk, settleLog,
                   submitted, trace>>

\* What Horizon answers to transactions().transaction(hash).call(): an error
\* (with a response status, or without any response), or the transaction.
TxOutcomes ==
    {[kind |-> "reject", hasResponse |-> TRUE, status |-> 404],
     [kind |-> "reject", hasResponse |-> TRUE, status |-> 500],
     [kind |-> "reject", hasResponse |-> FALSE, status |-> 0]}
    \cup [kind : {"transaction"}, successful : BOOLEAN,
          source_account : {"GSOURCE", "GOTHER"}]

\* Operation records Horizon may list for a transaction.
OperationRecords ==
    {[type |-> "payment", asset_type |-> "native", to |-> "GDEST", amount |-> "0.1000000"],
     [type |-> "payment", asset_type |-> "native", to |-> "GOTHER", amount |-> "0.1000000"],
     [type |-> "payment", asset_type |-> "native", to |-> "GDEST", amount |-> "2.0000000"],
     [type |-> "payment", asset_type |-> "credit_alphanum4", to |-> "GDEST", amount |-> "0.1000000"],
     [type |-> "create_account", asset_type |-> "none", to |-> "GDEST", amount |-> "0.1000000"]}

\* Operations per transaction in the pages Horizon answers with.
MaxOps == 2

OperationPages ==
    UNION {[1..n -> OperationRecords] : n \in 0..MaxOps}

\* What Horizon answers to operations().forTransaction(hash).call().
OpsOutcomes ==
    {[kind |-> "reject", reason |-> "Not Found"]}
    \cup [kind : {"page"}, records : OperationPages]

\* A find that keeps the last native payment rather than the first.
RECURSIVE FindLastPayment(_)
FindLastPayment(records) ==
    IF records = <<>> THEN [type |-> Undefined]
    ELSE LET last == records[Len(records)] IN
         IF last.type = "payment" /\ last.asset_type = "native"
         THEN last
         ELSE FindLastPayment(SubSeq(records, 1, Len(records) - 1))

\* operations.records.find(op => op.type === "payment" &&
\* op.asset_type === "native"): the first such record, if any.
RECURSIVE FindPayment(_)
FindPayment(records) ==
    IF records = <<>> THEN [type |-> Undefined]
    ELSE IF Head(records).type = "payment" /\ Head(records).asset_type = "native"
    THEN Head(records)
    ELSE FindPayment(Tail(records))

\* A string argument that was given and is not empty.
Given(x) == x \notin {Undefined, ""}

VerifyTransactionArgs ==
    [transactionHash : {"HASH1"}, network : {DefaultNetwork},
     expectedSender : {Undefined, "", "GSOURCE"},
     expectedRecipient : {Undefined, "GDEST"},
     expectedAmount : {Undefined, "0.1000000"}]

\* The caller invokes verifyTransaction(hash, network, sender?, recipient?,
\* amount?): it asks Horizon for the transaction and awaits.
InvokeVerifyTransaction(c) ==
    /\ MayInvoke(c)
    /\ \E args \in VerifyTransactionArgs :
        /\ stack' = [stack EXCEPT ![c] =
               <<Frame("verifyTransaction", "transaction", args,
                       [transaction |-> [kind |-> "pending"],
                        operations |-> [kind |-> "pending"]], 1)>>]
        /\ reqs' = [reqs EXCEPT ![c] =
               Append(@, HorizonGet("verifyTransaction", args.network,
                                    "/transactions/" \o args.transactionHash))]
    /\ invocations' = invocations + 1
    /\ UNCHANGED <<ret, started, posts, verifiedOk, settleLog, submitted, trace>>

\* verifyTransaction: the transaction request settles.
VerifyTransactionLoaded(c) ==
    /\ At(c, "verifyTransaction", "transaction")
    /\ \E o \in TxOutcomes :
        LET f == [Top(c) EXCEPT !.loc.transaction = o]
            args == Top(c).args IN
        IF o.kind = "reject" \/ ~o.successful
        THEN /\ stack' = Popped(c)
             /\ ret' = [ret EXCEPT ![c] = Completion(f, "return", FALSE)]
             /\ UNCHANGED reqs
        ELSE IF ~Given(args.expectedSender) /\ ~Given(args.expectedRecipient)
                /\ ~Given(args.expectedAmount)
        THEN /\ stack' = Popped(c)
             /\ ret' = [ret EXCEPT ![c] = Completion(f, "return", TRUE)]
             /\ UNCHANGED reqs
        ELSE IF Given(args.expectedSender) /\ o.source_account # args.expectedSender
        THEN /\ stack' = Popped(c)
             /\ ret' = [ret EXCEPT ![c] = Completion(f, "return", FALSE)]
             /\ UNCHANGED reqs
        ELSE /\ stack' = WithTop(c, [f EXCEPT !.pc = "operations", !.calls = @ + 1])
             /\ reqs' = [reqs EXCEPT ![c] =
                    Append(@, HorizonGet("verifyTransaction", args.network,
                               "/transactions/" \o args.transactionHash
                                   \o "/operations"))]
             /\ UNCHANGED ret
    /\ UNCHANGED <<invocations, started, posts, verifiedOk, settleLog,
                   submitted, trace>>

\* verifyTransaction without its amount check.
VerifyTransactionOperationsIgnoresAmount(c) ==
    /\ At(c, "verifyTransaction", "operations")
    /\ \E o \in OpsOutcomes :
        LET f == [Top(c) EXCEPT !.loc.operations = o]
            args == Top(c).args
            paymentOp == FindPayment(o.records) IN
        /\ stack' = Popped(c)
        /\ ret' = [ret EXCEPT ![c] =
               Completion(f, "return",
                   IF o.kind = "reject" THEN FALSE
                   ELSE IF paymentOp.type = Undefined THEN FALSE
                   ELSE IF Given(args.expectedRecipient)
                           /\ paymentOp.to # args.expectedRecipient THEN FALSE
                   ELSE TRUE)]
    /\ UNCHANGED <<reqs, invocations, started, posts, verifiedOk, settleLog,
                   submitted, trace>>

\* verifyTransaction: the operations request settles.
VerifyTransactionOperations(c) ==
    /\ At(c, "verifyTransaction", "operations")
    /\ \E o \in OpsOutcomes :
        LET f == [Top(c) EXCEPT !.loc.operations = o]
            args == Top(c).args
            paymentOp == FindPayment(o.records) IN
        /\ stack' = Popped(c)
        /\ ret' = [ret EXCEPT ![c] =
               Completion(f, "return",
                   IF o.kind = "reject" THEN FALSE
                   ELSE IF paymentOp.type = Undefined THEN FALSE
                   ELSE IF Given(args.expectedRecipient)
                           /\ paymentOp.to # args.expectedRecipient THEN FALSE
                   ELSE IF Given(args.expectedAmount)
                           /\ paymentOp.amount # args.expectedAmount THEN FALSE
                   ELSE TRUE)]
    /\ UNCHANGED <<reqs, invocations, started, posts, verifiedOk, settleLog,
                   submitted, trace>>

\* ------------------------------------------------------- waitForTransaction
\* What Horizon answers to waitForTransaction's request.
WaitOutcomes == {o \in TxOutcomes : o.kind = "transaction" => o.source_account = "GSOURCE"}

\* timeoutSeconds handed to waitForTransaction.
Timeouts == (0 - 1)..MaxTimeoutSeconds

\* error.response?.status === 404
Is404(o) == o.kind = "reject" /\ o.hasResponse /\ o.status = 404

NotFoundAfter(timeoutSeconds) ==
    Error("Transaction not found after " \o ToString(timeoutSeconds) \o " seconds")

\* The locals of a waitForTransaction frame as it completes: only the last
\* answer is kept for the record.
Finished(f) == [f EXCEPT !.loc = [outcome |-> f.loc.outcome]]

\* while (Date.now() - startTime < timeoutMs): the loop is entered with
\* `elapsed` milliseconds gone since startTime.  Either the next request is
\* sent, or the loop ends and the function throws.
WaitLoop(c, stk, f) ==
    IF f.loc.elapsed < f.args.timeoutSeconds * MsPerSecond
    THEN /\ stack' = [stack EXCEPT ![c] =
                Append(stk, [f EXCEPT !.pc = "transaction", !.calls = @ + 1,
                                      !.loc.requestAt = f.loc.elapsed,
                                      !.loc.wakeAt = 0])]
         /\ reqs' = [reqs EXCEPT ![c] =
                Append(@, HorizonGet("waitForTransaction", f.args.network,
                                     "/transactions/" \o f.args.transactionHash))]
         /\ UNCHANGED ret
    ELSE /\ stack' = [stack EXCEPT ![c] = stk]
         /\ ret' = [ret EXCEPT ![c] =
                Completion(Finished(f), "throw", NotFoundAfter(f.args.timeoutSeconds))]
         /\ UNCHANGED reqs

\* The caller invokes waitForTransaction(hash, network, timeoutSeconds):
\* startTime = Date.now(), then the loop.
InvokeWaitForTransaction(c) ==
    /\ MayInvoke(c)
    /\ \E t \in Timeouts :
        WaitLoop(c, <<>>,
            Frame("waitForTransaction", "start",
                  [transactionHash |-> "HASH1", network |-> DefaultNetwork,
                   timeoutSeconds |-> t],
                  [elapsed |-> 0, requestAt |-> 0, answeredAt |-> 0,
                   wakeAt |-> 0, outcome |-> [kind |-> "pending"]], 0))
    /\ invocations' = invocations + 1
    /\ UNCHANGED <<started, posts, verifiedOk, settleLog, submitted, trace>>

\* waitForTransaction returning true for any transaction it finds.
WaitTransactionSettledFoundIsTrue(c) ==
    /\ At(c, "waitForTransaction", "transaction")
    /\ \E o \in WaitOutcomes :
        LET f == [Top(c) EXCEPT !.loc.outcome = o,
                                !.loc.answeredAt = Top(c).loc.elapsed] IN
        IF o.kind = "transaction"
        THEN /\ stack' = Popped(c)
             /\ ret' = [ret EXCEPT ![c] = Completion(Finished(f), "return", TRUE)]
        ELSE IF Is404(o)
        THEN /\ stack' = WithTop(c, [f EXCEPT !.pc = "sleep", !.loc.requestAt = 0,
                                        !.loc.wakeAt = f.loc.elapsed + SleepMs])
             /\ UNCHANGED ret
        ELSE /\ stack' = Popped(c)
             /\ ret' = [ret EXCEPT ![c] = Completion(Finished(f), "throw", o)]
    /\ UNCHANGED <<reqs, invocations, started, posts, verifiedOk, settleLog,
                   submitted, trace>>

\* waitForTransaction: the transaction request settles.  A transaction ends
\* the wait with its `successful` flag; a 404 starts the one-second timer;
\* any other error is rethrown.
WaitTransactionSettled(c) ==
    /\ At(c, "waitForTransaction", "transaction")
    /\ \E o \in WaitOutcomes :
        LET f == [Top(c) EXCEPT !.loc.outcome = o,
                                !.loc.answeredAt = Top(c).loc.elapsed] IN
        IF o.kind = "transaction"
        THEN /\ stack' = Popped(c)
             /\ ret' = [ret EXCEPT ![c] = Completion(Finished(f), "return", o.successful)]
        ELSE IF Is404(o)
        THEN /\ stack' = WithTop(c, [f EXCEPT !.pc = "sleep", !.loc.requestAt = 0,
                                        !.loc.wakeAt = f.loc.elapsed + SleepMs])
             /\ UNCHANGED ret
        ELSE /\ stack' = Popped(c)
             /\ ret' = [ret EXCEPT ![c] = Completion(Finished(f), "throw", o)]
    /\ UNCHANGED <<reqs, invocations, started, posts, verifiedOk, settleLog,
                   submitted, trace>>

\* waitForTransaction with a timer whose promise is never resolved.
WaitTimerNeverFires(c) ==
    /\ At(c, "waitForTransaction", "sleep")
    /\ FALSE
    /\ UNCHANGED vars

\* waitForTransaction without the one-second wait: the loop goes round as
\* soon as the 404 has arrived.
WaitTimerFiredEarly(c) ==
    /\ At(c, "waitForTransaction", "sleep")
    /\ WaitLoop(c, SubSeq(stack[c], 1, Len(stack[c]) - 1), Top(c))
    /\ UNCHANGED <<invocations, started, posts, verifiedOk, settleLog,
                   submitted, trace>>

\* waitForTransaction: the timer has run out (never early, possibly late)
\* and the loop goes round.
WaitTimerFired(c) ==
    /\ At(c, "waitForTransaction", "sleep")
    /\ Top(c).loc.elapsed >= Top(c).loc.wakeAt
    /\ WaitLoop(c, SubSeq(stack[c], 1, Len(stack[c]) - 1), Top(c))
    /\ UNCHANGED <<invocations, started, posts, verifiedOk, settleLog,
                   submitted, trace>>

\* The frames of c that read the clock.
Waiting(c) == stack[c] # <<>> /\ Top(c).fn = "waitForTransaction"

\* Time passes: Date.now() grows by one tick for every call that reads it.
\* The clock is followed for MaxElapsedTicks after a call began, and beyond
\* that for as long as a timer of the call is still to run out.
Tick ==
    /\ \E c \in Calls : Waiting(c)
    /\ \A c \in Calls :
        Waiting(c) =>
            \/ Top(c).loc.elapsed < MaxElapsedTicks * TickMs
            \/ Top(c).pc = "sleep" /\ Top(c).loc.elapsed < Top(c).loc.wakeAt
    /\ stack' = [c \in Calls |->
           IF Waiting(c)
           THEN [stack[c] EXCEPT ![Len(stack[c])].loc.elapsed = @ + TickMs]
           ELSE stack[c]]
    /\ UNCHANGED <<ret, reqs, invocations, started, posts, verifiedOk,
                   settleLog, submitted, trace>>

\* -------------------------------------------------- synchronous utilities
\* parseFloat(xlm) on the decimals used here, as <<whole, seven-digit
\* fraction>>; <<>> is NaN.
XlmDigits(xlm) ==
    CASE xlm = "0.1" -> <<0, 1000000>>
      [] xlm = "1.5" -> <<1, 5000000>>
      [] xlm = "2.0" -> <<2, 0>>
      [] OTHER -> <<>>

\* xlmToStroops: Math.floor(parseFloat(xlm) * 10_000_000).toString()
xlmToStroops(xlm) ==
    IF XlmDigits(xlm) = <<>> THEN "NaN"
    ELSE ToString(XlmDigits(xlm)[1] * StroopsPerXlm + XlmDigits(xlm)[2])

\* parseInt(stroops) on the strings used here; -1 is NaN.
ParseInt(stroops) ==
    CASE stroops = "1000000" -> 1000000
      [] stroops = "15000000" -> 15000000
      [] stroops = "20000000" -> 20000000
      [] OTHER -> 0 - 1

RECURSIVE Zeros(_)
Zeros(k) == IF k <= 0 THEN "" ELSE "0" \o Zeros(k - 1)

RECURSIVE NumDigits(_)
NumDigits(n) == IF n < 10 THEN 1 ELSE 1 + NumDigits(n \div 10)

\* The digits after the decimal point of frac / 10^width, without trailing
\* zeros.
RECURSIVE Fraction(_, _)
Fraction(frac, width) ==
    IF frac % 10 = 0 THEN Fraction(frac \div 10, width - 1)
    ELSE Zeros(width - NumDigits(frac)) \o ToString(frac)

\* stroopsToXlm: (parseInt(stroops) / 10_000_000).toString()
stroopsToXlm(stroops) ==
    LET n == ParseInt(stroops) IN
    IF n < 0 THEN "NaN"
    ELSE IF n % StroopsPerXlm = 0 THEN ToString(n \div StroopsPerXlm)
    ELSE ToString(n \div StroopsPerXlm) \o "." \o Fraction(n % StroopsPerXlm, 7)

\* A field of a JavaScript object that may lack it.
Field(obj, name) == IF name \in DOMAIN obj THEN obj[name] ELSE Undefined

\* createPaymentResponse
createPaymentResponse(settlementResult) ==
    [transactionHash |-> Field(settlementResult, "transactionHash"),
     amount |-> Field(settlementResult, "amount"),
     currency |-> "XLM",
     recipient |-> Field(settlementResult, "recipient"),
     network |-> Field(settlementResult, "network"),
     timestamp |-> Field(settlementResult, "timestamp"),
     status |-> Field(settlementResult, "status")]

\* getHorizonClient
getHorizonClient(network) ==
    [serverURL |-> HorizonUrl(network),
     allowHttp |-> NormalizedNetwork(network) \in {"local", "standalone"}]

\* getKeypairFromSecret: Keypair.fromSecret, its error rewrapped.
getKeypairFromSecret(secretKey) ==
    IF secretKey = "SVALIDSECRET"
    THEN [kind |-> "return", val |-> [publicKey |-> "GSOURCE", canSign |-> TRUE]]
    ELSE [kind |-> "throw",
          val |-> Error("Invalid Stellar secret key: invalid encoded string")]

\* The exported functions that make no network call, with sample arguments.
SyncCalls ==
    [fn : {"getHorizonClient", "getNetworkPassphrase"}, arg : Networks]
    \cup [fn : {"getKeypairFromSecret"}, arg : {"SVALIDSECRET", "garbage"}]
    \cup [fn : {"xlmToStroops"}, arg : {"0.1", "1.5", "abc"}]
    \cup [fn : {"stroopsToXlm"}, arg : {"1000000", "15000000", "20000000", "abc"}]
    \cup [fn : {"createPaymentResponse"},
          arg : {[settled |-> "true", transactionHash |-> "HASH1",
                  network |-> DefaultNetwork],
                 [settled |-> "false", error |-> "Network error"]}]

SyncResult(call) ==
    CASE call.fn = "getHorizonClient" ->
            [kind |-> "return", val |-> getHorizonClient(call.arg)]
      [] call.fn = "getNetworkPassphrase" ->
            [kind |-> "return", val |-> NetworkPassphrase(call.arg)]
      [] call.fn = "getKeypairFromSecret" -> getKeypairFromSecret(call.arg)
      [] call.fn = "xlmToStroops" ->
            [kind |-> "return", val |-> xlmToStroops(call.arg)]
      [] call.fn = "stroopsToXlm" ->
            [kind |-> "return", val |-> stroopsToXlm(call.arg)]
      [] OTHER ->
            [kind |-> "return", val |-> createPaymentResponse(call.arg)]

\* The caller invokes one of the synchronous functions: it completes at once.
InvokeSync(c) ==
    /\ MayInvoke(c)
    /\ \E call \in SyncCalls :
        ret' = [ret EXCEPT ![c] =
            Completion(Frame(call.fn, "done", [arg |-> call.arg],
                             [sync |-> TRUE], 0),
                       SyncResult(call).kind, SyncResult(call).val)]
    /\ invocations' = invocations + 1
    /\ UNCHANGED <<stack, reqs, started, posts, verifiedOk, settleLog,
                   submitted, trace>>

\* The caller has taken the result of a finished call; the slot is free.
Collect(c) ==
    /\ Done(c)
    /\ ret' = [ret EXCEPT ![c] = NoRet]
    /\ reqs' = [reqs EXCEPT ![c] = <<>>]
    /\ trace' = [trace EXCEPT ![c] = <<>>]
    /\ UNCHANGED <<stack, invocations, started, posts, verifiedOk, settleLog,
                   submitted>>

\* ---------------------------------------------------------- specification
Init ==
    /\ stack = [c \in Calls |-> <<>>]
    /\ ret = [c \in Calls |-> NoRet]
    /\ reqs = [c \in Calls |-> <<>>]
    /\ invocations = 0
    /\ started = 0
    /\ posts = 0
    /\ verifiedOk = {}
    /\ settleLog = {}
    /\ submitted = <<>>
    /\ trace = [c \in Calls |-> <<>>]

Next ==
    \/ Tick
    \/ \E c \in Calls :
        \/ InvokeVerifyPayment(c)
        \/ InvokeSettlePayment(c)
        \/ InvokeVerifyPaymentSimple(c)
        \/ InvokeSettlePaymentSimple(c)
        \/ VerifyPaymentFetched(c)
        \/ VerifyPaymentParsed(c)
        \/ SettlePaymentFetched(c)
        \/ SettlePaymentParsed(c)
        \/ SimpleReturned(c)
        \/ InvokeBuildPaymentTransaction(c)
        \/ BuildAccountLoaded(c)
        \/ InvokeSignAndSubmitPayment(c)
        \/ SignAndSubmitBuilt(c)
        \/ SignAndSubmitSettled(c)
        \/ InvokeGetAccountBalance(c)
        \/ GetAccountBalanceLoaded(c)
        \/ InvokeVerifyTransaction(c)
        \/ VerifyTransactionLoaded(c)
        \/ VerifyTransactionOperations(c)
        \/ InvokeWaitForTransaction(c)
        \/ WaitTransactionSettled(c)
        \/ WaitTimerFired(c)
        \/ InvokeSync(c)
        \/ Collect(c)

Spec == Init /\ [][Next]_vars

\* ------------------------------------------------------------ properties
\* The exported function the caller invoked in slot c ("none" when free).
InvokedFn(c) ==
    IF stack[c] # <<>> THEN stack[c][1].fn
    ELSE IF ret[c].kind # "none" THEN ret[c].fn
    ELSE "none"

\* A frame of fn has just completed in slot c.
Completed(c, fn) == ret[c].kind # "none" /\ ret[c].fn = fn

\* The facilitator call failed: fetch rejected, the body was not JSON, or the
\* status was not 2xx.
CallFailed(o) ==
    o.kind = "reject" \/ o.body.json = "invalid" \/ ~Ok(o.status)

\* The requests of call c that function fn issued.
RequestsBy(c, fn) == {i \in DOMAIN reqs[c] : reqs[c][i].fn = fn}

\* C1: verifyPayment and settlePayment never throw: whatever the facilitator
\* call does, they return; and when the call failed (fetch rejected, body not
\* JSON, status not 2xx) the result is an object marked valid=false /
\* settled=false, whatever the body claims.
C1_NeverThrowFailureIsNegative ==
    \A c \in Calls :
        /\ Completed(c, "verifyPayment") =>
            /\ ret[c].kind = "return"
            /\ CallFailed(ret[c].loc.outcome) =>
                ret[c].val.json = "object" /\ ret[c].val.valid = "false"
        /\ Completed(c, "settlePayment") =>
            /\ ret[c].kind = "return"
            /\ CallFailed(ret[c].loc.outcome) =>
                ret[c].val.json = "object" /\ ret[c].val.settled = "false"

\* C1 witness: verifyPayment has returned valid=false for a 500 response
\* whose body said valid: true.
C1_Witness ==
    \E c \in Calls :
        /\ Completed(c, "verifyPayment")
        /\ ret[c].loc.outcome.kind = "response"
        /\ ret[c].loc.outcome.status = 500
        /\ ret[c].loc.outcome.body.json = "object"
        /\ ret[c].loc.outcome.body.valid = "true"
        /\ ret[c].val.valid = "false"

\* C2: every execution of verifyPayment / settlePayment issues exactly one
\* HTTP POST, to the URL it was given: in flight and when it has completed
\* it has sent one request, and over all calls the facilitator has been sent
\* as many POSTs as executions were begun (no retry, no cache).
C2_OnePostPerInvocation ==
    /\ posts = started
    /\ \A c \in Calls : \A fn \in {"verifyPayment", "settlePayment"} :
        /\ Completed(c, fn) =>
            /\ ret[c].calls = 1
            /\ Cardinality(RequestsBy(c, fn)) = 1
            /\ \A i \in RequestsBy(c, fn) :
                /\ reqs[c][i].method = "POST"
                /\ reqs[c][i].url = ret[c].args.facilitatorUrl
        /\ (stack[c] # <<>> /\ Top(c).fn = fn) =>
            /\ Top(c).calls = 1
            /\ Cardinality(RequestsBy(c, fn)) = 1
            /\ reqs[c][Len(reqs[c])].url = Top(c).args.facilitatorUrl

\* C2 witness: a second invocation, after a first one whose fetch was
\* rejected, has completed and the facilitator has seen two POSTs.
C2_Witness ==
    /\ invocations = 2 /\ started = 2 /\ posts = 2
    /\ \E c \in Calls :
        /\ Completed(c, "verifyPayment")
        /\ ret[c].loc.outcome.kind = "reject"

Max(a, b) == IF a >= b THEN a ELSE b

\* C3 (as stated): every exported function makes at most two network calls
\* per invocation.
C3_AtMostTwoCalls ==
    \A c \in Calls : Len(reqs[c]) <= 2

\* C3 (amended): every exported function other than waitForTransaction makes
\* at most two network calls per invocation; waitForTransaction makes one
\* call per polling round, at most timeoutSeconds of them.
C3_AtMostTwoCallsButWait ==
    \A c \in Calls :
        /\ InvokedFn(c) # "waitForTransaction" => Len(reqs[c]) <= 2
        /\ (stack[c] # <<>> /\ Top(c).fn = "waitForTransaction") =>
            Len(reqs[c]) <= Max(0, Top(c).args.timeoutSeconds)
        /\ Completed(c, "waitForTransaction") =>
            Len(reqs[c]) <= Max(0, ret[c].args.timeoutSeconds)

\* C3 witness: signAndSubmitPayment has returned after its two calls, the
\* account load and the submission.
C3_Witness ==
    \E c \in Calls :
        /\ Completed(c, "signAndSubmitPayment")
        /\ ret[c].kind = "return"
        /\ Len(reqs[c]) = 2

\* C4: the body sent to /verify has the fields of VerifyRequest, the body
\* sent to /settle those of SettleRequest, and the results the client builds
\* have the fields of VerifyResponse / SettleResponse.
C4_WireShapes ==
    \A c \in Calls :
        /\ \A i \in RequestsBy(c, "verifyPayment") :
            DOMAIN reqs[c][i].body = VerifyRequest
        /\ \A i \in RequestsBy(c, "settlePayment") :
            DOMAIN reqs[c][i].body = SettleRequest
        /\ (Completed(c, "verifyPayment") /\ CallFailed(ret[c].loc.outcome)) =>
            DOMAIN ret[c].val \ {"json"} \subseteq VerifyResponse
        /\ (Completed(c, "settlePayment") /\ CallFailed(ret[c].loc.outcome)) =>
            DOMAIN ret[c].val \ {"json"} \subseteq SettleResponse

\* waitForTransaction alone, with the scheduling the claim assumes: the
\* clock advances, every Horizon request completes, and a timer that has run
\* out fires.
NextWait ==
    \/ Tick
    \/ \E c \in Calls :
        \/ InvokeWaitForTransaction(c)
        \/ WaitTransactionSettled(c)
        \/ WaitTimerFired(c)
        \/ Collect(c)

WaitSpec ==
    /\ Init
    /\ [][NextWait]_vars
    /\ WF_vars(Tick)
    /\ \A c \in Calls :
        WF_vars(WaitTransactionSettled(c)) /\ WF_vars(WaitTimerFired(c))

\* Every answer call c of waitForTransaction has had so far was a 404 (or it
\* has had none).
Only404s(o) == o.kind = "pending" \/ Is404(o)

\* C5: waitForTransaction always terminates: a call in flight eventually
\* returns or throws, whatever Horizon answers; and a call that has only
\* ever been answered 404 ends by throwing "Transaction not found after
\* <timeoutSeconds> seconds".
C5_WaitTerminates ==
    /\ \A c \in Calls :
        Waiting(c) ~> Completed(c, "waitForTransaction")
    /\ [](\A c \in Calls :
            (Completed(c, "waitForTransaction") /\ Only404s(ret[c].loc.outcome)) =>
                /\ ret[c].kind = "throw"
                /\ ret[c].val = NotFoundAfter(ret[c].args.timeoutSeconds))

\* C5 witness: a call answered 404 three times has thrown the not-found
\* error.
C5_Witness ==
    \E c \in Calls :
        /\ Completed(c, "waitForTransaction")
        /\ Is404(ret[c].loc.outcome)
        /\ ret[c].calls = 3
        /\ ret[c].kind = "throw"

\* C6: waitForTransaction sends a further request only after a 404 and not
\* before one second has passed since that answer; it sends no request once
\* timeoutSeconds have elapsed since it began; with timeoutSeconds <= 0 it
\* sends none at all and throws the not-found error.
C6_PollAfter404AndSecond ==
    \A c \in Calls :
        /\ At(c, "waitForTransaction", "transaction") =>
            /\ Top(c).loc.requestAt < Top(c).args.timeoutSeconds * MsPerSecond
            /\ Top(c).calls >= 2 =>
                /\ Is404(Top(c).loc.outcome)
                /\ Top(c).loc.requestAt >= Top(c).loc.answeredAt + SleepMs
        /\ Waiting(c) => Top(c).args.timeoutSeconds > 0
        /\ (Completed(c, "waitForTransaction") /\ ret[c].args.timeoutSeconds <= 0) =>
            /\ reqs[c] = <<>>
            /\ ret[c].calls = 0
            /\ ret[c].kind = "throw"
            /\ ret[c].val = NotFoundAfter(ret[c].args.timeoutSeconds)

\* C6 witness: a second request is in flight, sent a second or more after
\* the 404 that answered the first.
C6_Witness ==
    \E c \in Calls :
        /\ At(c, "waitForTransaction", "transaction")
        /\ Top(c).calls = 2
        /\ Top(c).loc.requestAt > Top(c).loc.answeredAt + SleepMs

\* C7: the first answer that is not a 404 ends the wait: a call still in
\* flight has had only 404s; a transaction found makes the call return its
\* `successful` flag; any other error is thrown to the caller as it came.
C7_FirstNon404Ends ==
    \A c \in Calls :
        /\ Waiting(c) => Only404s(Top(c).loc.outcome)
        /\ Completed(c, "waitForTransaction") =>
            /\ ret[c].loc.outcome.kind = "transaction" =>
                ret[c].kind = "return" /\ ret[c].val = ret[c].loc.outcome.successful
            /\ (ret[c].loc.outcome.kind = "reject" /\ ~Is404(ret[c].loc.outcome)) =>
                ret[c].kind = "throw" /\ ret[c].val = ret[c].loc.outcome
            /\ ret[c].kind = "return" => ret[c].loc.outcome.kind = "transaction"

\* C7 witness: after a 404, the second answer was a failed transaction and
\* the call returned false.
C7_Witness ==
    \E c \in Calls :
        /\ Completed(c, "waitForTransaction")
        /\ ret[c].calls = 2
        /\ ret[c].loc.outcome.kind = "transaction"
        /\ ~ret[c].loc.outcome.successful
        /\ ret[c].kind = "return"
        /\ ret[c].val = FALSE

\* C8 (as stated): every settle request for a transaction is sent after a
\* verify request for that transaction has come back valid.
C8_SettleOnlyAfterVerify ==
    \A e \in settleLog : e.verified

\* The arguments the caller invoked call c with.
InvokedArgs(c) ==
    IF stack[c] # <<>> THEN stack[c][1].args ELSE ret[c].args

\* C8 (amended): settlePayment and settlePaymentSimple (given a facilitator
\* URL) send their settle request for the transaction they are given as soon
\* as they are invoked, whether or not a verify of that transaction has come
\* back valid: the client keeps nothing of a verification, and a settle
\* request follows a successful verification only when the caller invokes
\* them in that order.
C8_SettleSentWheneverInvoked ==
    \A c \in Calls :
        (/\ InvokedFn(c) \in {"settlePayment", "settlePaymentSimple"}
         /\ InvokedArgs(c).facilitatorUrl # "") =>
            /\ \E i \in RequestsBy(c, "settlePayment") :
                reqs[c][i].body.signedTransaction = InvokedArgs(c).signedTransaction
            /\ \E e \in settleLog :
                /\ e.tx = InvokedArgs(c).signedTransaction
                /\ e.by = InvokedFn(c)

\* C8 witness: settlePayment has sent its request, and returned, for a
\* transaction no verify has found valid.
C8_Witness ==
    \E c \in Calls :
        /\ Completed(c, "settlePayment")
        /\ ret[c].args.signedTransaction \notin verifiedOk
        /\ RequestsBy(c, "settlePayment") # {}
        /\ \E e \in settleLog :
            e.tx = ret[c].args.signedTransaction /\ ~e.verified

\* The position of event e in the trace tr (0 when absent).
RECURSIVE IndexOf(_, _)
IndexOf(tr, e) ==
    IF tr = <<>> THEN 0
    ELSE IF tr[Len(tr)] = e /\ IndexOf(SubSeq(tr, 1, Len(tr) - 1), e) = 0 THEN Len(tr)
    ELSE IndexOf(SubSeq(tr, 1, Len(tr) - 1), e)

Occurrences(tr, e) == Cardinality({i \in DOMAIN tr : tr[i] = e})

\* C9: signAndSubmitPayment builds, signs and submits in that order: it
\* submits at most once, and only after the account was loaded and the
\* transaction built and signed; a failed load or build submits nothing;
\* a hash is returned only for a submission that succeeded, and a failed
\* submission ends in a throw.
C9_BuildSignSubmit ==
    \A c \in Calls :
        InvokedFn(c) = "signAndSubmitPayment" =>
            /\ Occurrences(trace[c], "submit") <= 1
            /\ Occurrences(trace[c], "submit") = Cardinality(RequestsBy(c, "signAndSubmitPayment"))
            /\ IndexOf(trace[c], "submit") > 0 =>
                /\ SubSeq(trace[c], 1, 5) =
                       <<"loadAccount", "loaded", "built", "signed", "submit">>
                /\ submitted # <<>>
                /\ submitted[Len(submitted)].signatures # <<>>
            /\ (IndexOf(trace[c], "loadFailed") > 0 \/ IndexOf(trace[c], "buildFailed") > 0) =>
                /\ IndexOf(trace[c], "submit") = 0
                /\ RequestsBy(c, "signAndSubmitPayment") = {}
            /\ Completed(c, "signAndSubmitPayment") =>
                /\ ret[c].kind = "return" =>
                    /\ trace[c][Len(trace[c])] = "submitted"
                    /\ ret[c].loc.outcome.kind = "success"
                    /\ ret[c].val = ret[c].loc.outcome.hash
                /\ IndexOf(trace[c], "submitFailed") > 0 => ret[c].kind = "throw"

\* C9 witness: signAndSubmitPayment has returned the hash of a submission
\* that succeeded.
C9_Witness ==
    \E c \in Calls :
        /\ Completed(c, "signAndSubmitPayment")
        /\ ret[c].kind = "return"
        /\ trace[c] = <<"loadAccount", "loaded", "built", "signed", "submit", "submitted">>

\* A step of a buildPaymentTransaction frame of call c: it is entered, or it
\* completes.
BuildStep(c) ==
    \/ /\ stack[c] # <<>> /\ Top(c).fn = "buildPaymentTransaction"
       /\ stack'[c] # stack[c]
    \/ /\ stack'[c] # <<>> /\ stack'[c] # stack[c]
       /\ stack'[c][Len(stack'[c])].fn = "buildPaymentTransaction"

\* C10: buildPaymentTransaction neither signs nor submits: no step of it
\* changes the transactions handed to Horizon, it makes exactly one network
\* call (the account load), and what it returns carries no signature.
C10_BuildOnlyBuilds ==
    /\ [][\A c \in Calls : BuildStep(c) => submitted' = submitted]_vars
    /\ [](\A c \in Calls :
            /\ Completed(c, "buildPaymentTransaction") =>
                /\ ret[c].calls = 1
                /\ Cardinality(RequestsBy(c, "buildPaymentTransaction")) = 1
                /\ reqs[c][1].method = "GET"
                /\ ret[c].kind = "return" => ret[c].val.signatures = <<>>
            /\ InvokedFn(c) = "buildPaymentTransaction" =>
                /\ Len(reqs[c]) = 1
                /\ IndexOf(trace[c], "signed") = 0
                /\ IndexOf(trace[c], "submit") = 0)

\* C10 witness: buildPaymentTransaction, invoked after a payment was
\* submitted, has returned an unsigned transaction.
C10_Witness ==
    \E c \in Calls :
        /\ Completed(c, "buildPaymentTransaction")
        /\ InvokedFn(c) = "buildPaymentTransaction"
        /\ ret[c].kind = "return"
        /\ ret[c].val.signatures = <<>>
        /\ submitted # <<>>

\* What verifyPayment(url, ...) returns when its request is answered o.
DirectVerifyResult(o) ==
    IF o.kind = "reject" THEN NetworkError("valid", o.reason)
    ELSE VerifyPaymentResult(o)

\* What settlePayment(url, ...) returns when its request is answered o.
DirectSettleResult(o) ==
    IF o.kind = "reject" THEN NetworkError("settled", o.reason)
    ELSE SettlePaymentResult(o)

URLRequired == Error("Facilitator URL is required - no default available")

\* The wrapper frame of call c has the result of the call it made.
WrapperHasResult(c) ==
    /\ stack[c] # <<>>
    /\ Top(c).fn \in {"verifyPaymentSimple", "settlePaymentSimple"}
    /\ ret[c].kind # "none"

\* C11: verifyPaymentSimple / settlePaymentSimple with a base URL send the
\* one request verifyPayment / settlePayment send for URL + "/verify" /
\* "/settle" and the same arguments, and return what that call returns for
\* the answer it got; with an empty base URL they fail with "Facilitator URL
\* is required ..." and send nothing.
C11_SimpleIsDirectCall ==
    /\ [](\A c \in Calls :
            /\ Completed(c, "verifyPayment") =>
                ret[c].val = DirectVerifyResult(ret[c].loc.outcome)
            /\ Completed(c, "settlePayment") =>
                ret[c].val = DirectSettleResult(ret[c].loc.outcome)
            /\ WrapperHasResult(c) =>
                /\ ret[c].fn = Top(c).loc.inner
                /\ ret[c].args.facilitatorUrl = Top(c).args.facilitatorUrl \o
                       (IF ret[c].fn = "verifyPayment" THEN "/verify" ELSE "/settle")
                /\ [ret[c].args EXCEPT !.facilitatorUrl = ""] =
                       [Top(c).args EXCEPT !.facilitatorUrl = ""]
            /\ (Completed(c, "verifyPaymentSimple") /\ stack[c] = <<>>) =>
                IF ret[c].args.facilitatorUrl = ""
                THEN ret[c].kind = "throw" /\ ret[c].val = URLRequired /\ reqs[c] = <<>>
                ELSE /\ ret[c].kind = "return"
                     /\ reqs[c] = <<Request("verifyPayment", "POST",
                                           ret[c].args.facilitatorUrl \o "/verify",
                                           VerifyBody(ret[c].args))>>
            /\ (Completed(c, "settlePaymentSimple") /\ stack[c] = <<>>) =>
                IF ret[c].args.facilitatorUrl = ""
                THEN ret[c].kind = "throw" /\ ret[c].val = URLRequired /\ reqs[c] = <<>>
                ELSE /\ ret[c].kind = "return"
                     /\ reqs[c] = <<Request("settlePayment", "POST",
                                           ret[c].args.facilitatorUrl \o "/settle",
                                           SettleBody(ret[c].args))>>)
    /\ [][\A c \in Calls :
            (WrapperHasResult(c) /\ stack'[c] # stack[c]) =>
                /\ ret'[c].kind = ret[c].kind
                /\ ret'[c].val = ret[c].val
                /\ reqs'[c] = reqs[c]]_vars

\* C11 witness: verifyPaymentSimple, given a base URL, has returned the body
\* the facilitator answered its one request to <base>/verify with.
C11_Witness ==
    \E c \in Calls :
        /\ Completed(c, "verifyPaymentSimple") /\ stack[c] = <<>>
        /\ ret[c].args.facilitatorUrl # ""
        /\ ret[c].kind = "return"
        /\ ret[c].val.json = "object"
        /\ ret[c].val.valid = "true"
        /\ Len(reqs[c]) = 1

\* The positions of the native payment operations among records.
NativePayments(records) ==
    {i \in DOMAIN records :
        records[i].type = "payment" /\ records[i].asset_type = "native"}

\* The position of the first native payment (there is one).
FirstNative(records) ==
    CHOOSE i \in NativePayments(records) :
        \A j \in NativePayments(records) : i <= j

\* Call c of verifyTransaction was answered with a page of operations that
\* holds a native payment.
HasPayment(c) ==
    /\ ret[c].loc.operations.kind = "page"
    /\ NativePayments(ret[c].loc.operations.records) # {}

\* The payment verifyTransaction is to judge in call c.
ThePayment(c) ==
    ret[c].loc.operations.records[FirstNative(ret[c].loc.operations.records)]

\* Call c of verifyTransaction never threw, returned true only for a found,
\* successful transaction matching every expected value not in `absent`, and
\* returned false for a Horizon error, an unsuccessful transaction or a
\* mismatch of such a value.
TransactionSound(c, absent) ==
    LET args == ret[c].args
        tx == ret[c].loc.transaction
        ops == ret[c].loc.operations IN
    /\ ret[c].kind = "return"
    /\ ret[c].val \in BOOLEAN
    /\ ret[c].val =>
        /\ tx.kind = "transaction"
        /\ tx.successful
        /\ args.expectedSender \notin absent =>
            tx.source_account = args.expectedSender
        /\ args.expectedRecipient \notin absent =>
            HasPayment(c) /\ ThePayment(c).to = args.expectedRecipient
        /\ args.expectedAmount \notin absent =>
            HasPayment(c) /\ ThePayment(c).amount = args.expectedAmount
    /\ (tx.kind = "reject" \/ ops.kind = "reject") => ~ret[c].val
    /\ (tx.kind = "transaction" /\ ~tx.successful) => ~ret[c].val
    /\ (/\ tx.kind = "transaction" /\ args.expectedSender \notin absent
        /\ tx.source_account # args.expectedSender) => ~ret[c].val
    /\ (/\ HasPayment(c) /\ args.expectedRecipient \notin absent
        /\ ThePayment(c).to # args.expectedRecipient) => ~ret[c].val
    /\ (/\ HasPayment(c) /\ args.expectedAmount \notin absent
        /\ ThePayment(c).amount # args.expectedAmount) => ~ret[c].val

AnyGiven(args) ==
    \/ Given(args.expectedSender)
    \/ Given(args.expectedRecipient)
    \/ Given(args.expectedAmount)

\* The operation op is what the caller of verifyTransaction expects.
Expected(op, args) ==
    /\ Given(args.expectedRecipient) => op.to = args.expectedRecipient
    /\ Given(args.expectedAmount) => op.amount = args.expectedAmount

\* C13: with an expected value given, verifyTransaction judges recipient and
\* amount by the first native payment operation alone: a page without a
\* native payment yields false (even when only a matching expectedSender was
\* given), and with one the result is whether that first payment is the
\* expected one, whatever follows it; with no expected value given it makes
\* one Horizon call and never asks for the operations.
C13_FirstNativePaymentOnly ==
    \A c \in Calls :
        Completed(c, "verifyTransaction") =>
            LET args == ret[c].args
                ops == ret[c].loc.operations IN
            /\ (ops.kind = "page" /\ ~HasPayment(c)) => ret[c].val = FALSE
            /\ HasPayment(c) => ret[c].val = Expected(ThePayment(c), args)
            /\ ops.kind # "pending" => AnyGiven(args) /\ ret[c].calls = 2
            /\ ~AnyGiven(args) =>
                /\ ret[c].calls = 1
                /\ Len(reqs[c]) = 1
                /\ ops.kind = "pending"

\* C13 witness: verifyTransaction returned false because the first native
\* payment is not the expected one, though the second is.
C13_Witness ==
    \E c \in Calls :
        /\ Completed(c, "verifyTransaction")
        /\ HasPayment(c)
        /\ Len(ret[c].loc.operations.records) = 2
        /\ ~Expected(ret[c].loc.operations.records[1], ret[c].args)
        /\ NativePayments(ret[c].loc.operations.records) = {1, 2}
        /\ Expected(ret[c].loc.operations.records[2], ret[c].args)
        /\ ret[c].val = FALSE

\* ------------------------------------------------- concurrent invocations
\* The caller may invoke a function in slot c while other calls are still
\* running: nothing awaits between the invocations.
MayInvokeConcurrently(c) ==
    /\ Idle(c)
    /\ \A d \in Calls : d < c => ~Idle(d)
    /\ invocations < MaxInvocations

InvokeVerifyPaymentConcurrently(c) ==
    /\ MayInvokeConcurrently(c)
    /\ \E tx \in SignedTxs : EnterVerifyPayment(c, <<>>, VerifyArgs(VerifyUrl, tx))
    /\ invocations' = invocations + 1
    /\ UNCHANGED <<verifiedOk, submitted, trace>>

InvokeSettlePaymentConcurrently(c) ==
    /\ MayInvokeConcurrently(c)
    /\ \E tx \in SignedTxs : EnterSettlePayment(c, <<>>, SettleArgs(SettleUrl, tx))
    /\ invocations' = invocations + 1
    /\ UNCHANGED <<verifiedOk, submitted, trace>>

InvokeWaitForTransactionConcurrently(c) ==
    /\ MayInvokeConcurrently(c)
    /\ \E t \in Timeouts :
        WaitLoop(c, <<>>,
            Frame("waitForTransaction", "start",
                  [transactionHash |-> "HASH1", network |-> DefaultNetwork,
                   timeoutSeconds |-> t],
                  [elapsed |-> 0, requestAt |-> 0, answeredAt |-> 0,
                   wakeAt |-> 0, outcome |-> [kind |-> "pending"]], 0))
    /\ invocations' = invocations + 1
    /\ UNCHANGED <<started, posts, verifiedOk, settleLog, submitted, trace>>

\* Interleavings of verifyPayment, settlePayment and waitForTransaction.
NextConcurrent ==
    \/ Tick
    \/ \E c \in Calls :
        \/ InvokeVerifyPaymentConcurrently(c)
        \/ InvokeSettlePaymentConcurrently(c)
        \/ InvokeWaitForTransactionConcurrently(c)
        \/ VerifyPaymentFetched(c)
        \/ VerifyPaymentParsed(c)
        \/ SettlePaymentFetched(c)
        \/ SettlePaymentParsed(c)
        \/ WaitTransactionSettled(c)
        \/ WaitTimerFired(c)
        \/ Collect(c)

ConcurrentSpec == Init /\ [][NextConcurrent]_vars

\* What waitForTransaction(hash, network, timeoutSeconds) ends with when the
\* last answer to its requests was o (pending: it made none).
WaitAloneResult(args, o) ==
    IF o.kind = "transaction" THEN [kind |-> "return", val |-> o.successful]
    ELSE IF o.kind = "reject" /\ ~Is404(o) THEN [kind |-> "throw", val |-> o]
    ELSE [kind |-> "throw", val |-> NotFoundAfter(args.timeoutSeconds)]

\* The frames stk without the reading of the clock.
NoClock(stk) ==
    [i \in DOMAIN stk |->
        IF stk[i].fn = "waitForTransaction"
        THEN [stk[i] EXCEPT !.loc.elapsed = 0]
        ELSE stk[i]]

\* This step is a step of call c: its frames, its result or its requests
\* change (the passing of time aside).
Moved(c) ==
    \/ NoClock(stack'[c]) # NoClock(stack[c])
    \/ ret'[c] # ret[c]
    \/ reqs'[c] # reqs[c]

\* C14: invocations of verifyPayment, settlePayment and waitForTransaction
\* running at once do not interfere: a step of one call changes nothing of
\* another, and however the calls interleave each one sends the request(s)
\* of its own arguments and ends with the result that its arguments and the
\* answers to its own requests give when it runs alone.
C14_NoInterference ==
    /\ [][\A c, d \in Calls : c # d => ~(Moved(c) /\ Moved(d))]_vars
    /\ [](\A c \in Calls :
            /\ Completed(c, "verifyPayment") =>
                /\ ret[c].kind = "return"
                /\ ret[c].val = DirectVerifyResult(ret[c].loc.outcome)
                /\ reqs[c] = <<Request("verifyPayment", "POST",
                                      ret[c].args.facilitatorUrl,
                                      VerifyBody(ret[c].args))>>
            /\ Completed(c, "settlePayment") =>
                /\ ret[c].kind = "return"
                /\ ret[c].val = DirectSettleResult(ret[c].loc.outcome)
                /\ reqs[c] = <<Request("settlePayment", "POST",
                                      ret[c].args.facilitatorUrl,
                                      SettleBody(ret[c].args))>>
            /\ Completed(c, "waitForTransaction") =>
                /\ ret[c].kind = WaitAloneResult(ret[c].args, ret[c].loc.outcome).kind
                /\ ret[c].val = WaitAloneResult(ret[c].args, ret[c].loc.outcome).val
                /\ Len(reqs[c]) = ret[c].calls
                /\ \A i \in DOMAIN reqs[c] :
                    reqs[c][i] = HorizonGet("waitForTransaction", ret[c].args.network,
                                            "/transactions/" \o ret[c].args.transactionHash))

\* C14 witness: while a waitForTransaction was polling (its second request
\* is out), a verifyPayment ran from invocation to result.
C14_Witness ==
    /\ invocations = 2
    /\ Waiting(1) /\ Top(1).calls = 2
    /\ Completed(2, "verifyPayment")
    /\ ret[2].val = DirectVerifyResult(ret[2].loc.outcome)
    /\ ret[2].loc.outcome.kind = "response"

====
